---------------------------- MODULE Spec2Model ----------------------------
(***************************************************************************)
(* Model of the stocker portfolio ledger: src/app.py (the buy_stock and    *)
(* sell_stock request handlers, delete_trader, the DynamoDB data access    *)
(* functions) and src/setup_dynamodb.py (add_sample_data).                 *)
(*                                                                         *)
(* The four DynamoDB tables are the shared state.  Every DynamoDB call is  *)
(* one atomic step of the request that makes it; the requests of different *)
(* slots interleave between their calls, as the requests of a threaded     *)
(* Flask server do.  No handler takes a lock.                              *)
(*                                                                         *)
(* Numbers.  Money values are Python Decimals.  A value is modelled as an  *)
(* integer count of units of 10^-(DecPrec - 4), and every Decimal operation *)
(* rounds its exact result half-even to DecPrec significant digits, as    *)
(* the decimal context does with its 28.  A float keeps fewer significant  *)
(* digits than a Decimal (17 against 28); FloatPrec keeps that order.  The *)
(* model is valid for values with four integer digits or more, which is    *)
(* the range of the sample prices.                                         *)
(***************************************************************************)
EXTENDS Integers, Sequences, FiniteSets, TLC

VARIABLES
    users,         \* stocker_users: email -> [id, role]
    stocks,        \* stocker_stocks: stock id -> [symbol, price]
    transactions,  \* stocker_transactions, in order of creation
    portfolio,     \* stocker_portfolio: <<user_id, stock_id>> -> [quantity, average_price]
    req,           \* per request slot: the handler's position and locals
    seedRuns,      \* number of completed runs of add_sample_data
    succeeded      \* number of trade requests that returned their success page

vars == <<users, stocks, transactions, portfolio, req, seedRuns, succeeded>>

------------------------------------------------------------------------------
\* Bounds of the model.

\* Significant digits of the modelled decimal context.
DecPrec == 6
\* Concurrent request slots.
MaxReqs == 2
\* Trades (logged buys and sells) the handlers may execute in one behaviour.
MaxTrades == 3
\* Runs of the seeding script.
MaxSeedRuns == 1
\* Runs of the seeding script where it is run again.
MaxReseeds == 2
\* Items of the transactions table a portfolio view scans.
MaxListed == 3
\* Largest second and largest microsecond of a modelled clock reading.
MaxSecond == 1
MaxMicro == 1

\* Significant digits that survive Decimal -> float -> str -> Decimal.
FloatPrec == DecPrec - 1

RECURSIVE Pow10(_)
Pow10(n) == IF n <= 0 THEN 1 ELSE 10 * Pow10(n - 1)

\* Units per 1.00 of currency: the modelled prices (2500.00, 1600.00, ...)
\* have four integer digits, the other DecPrec - 4 digits are fractional.
Unit == Pow10(DecPrec - 4)

Reqs == 1..MaxReqs

------------------------------------------------------------------------------
\* Decimal arithmetic (decimal.Decimal under the default context).

RECURSIVE Digits(_)
Digits(n) == IF n < 10 THEN 1 ELSE 1 + Digits(n \div 10)

Abs(x) == IF x < 0 THEN -x ELSE x

\* n / d rounded to an integer, ties to even (ROUND_HALF_EVEN).
RoundHalfEven(n, d) ==
    LET q == n \div d
        r == n % d
    IN  IF 2 * r > d \/ (2 * r = d /\ q % 2 = 1) THEN q + 1 ELSE q

\* The exact value n / d rounded to prec significant digits.
RoundSig(n, d, prec) ==
    LET dg == Digits(n \div d)
    IN  IF dg > prec
        THEN RoundHalfEven(n, d * Pow10(dg - prec)) * Pow10(dg - prec)
        ELSE RoundHalfEven(n, d)

DecMul(a, v) == RoundSig(a * v, 1, DecPrec)
DecAdd(v, w) == RoundSig(v + w, 1, DecPrec)
DecDiv(v, a) == RoundSig(v, a, DecPrec)

\* Decimal(str(float(v))): the value as it comes back from a float.
FloatRoundTrip(v) == RoundSig(v, 1, FloatPrec)

\* float(v), and the product and the sum of two floats: the exact result
\* rounded to the digits a float keeps.
Float(v) == RoundSig(v, 1, FloatPrec)
FloatMul(x, y) == RoundSig(x * y, 1, FloatPrec)
FloatAdd(x, y) == RoundSig(x + y, 1, FloatPrec)

------------------------------------------------------------------------------
\* Dates.  A clock reading is <<second, microsecond>>; a string is the
\* sequence of its character codes.

\* datetime.isoformat(): the digits of the seconds and, unless the
\* microseconds are 0, a "." (code 46) and the digits of the microseconds.
isoformat(t) ==
    IF t[2] = 0 THEN <<48 + t[1]>> ELSE <<48 + t[1], 46, 48 + t[2]>>

\* datetime.fromisoformat(), on the strings isoformat gives.
fromisoformat(str) ==
    IF Len(str) = 1 THEN <<str[1] - 48, 0>> ELSE <<str[1] - 48, str[3] - 48>>

\* a < b for Python strings: by the first character that differs, a proper
\* prefix before the longer string.
RECURSIVE StrLess(_, _)
StrLess(a, b) ==
    IF b = <<>> THEN FALSE
    ELSE IF a = <<>> THEN TRUE
    ELSE IF Head(a) # Head(b) THEN Head(a) < Head(b)
    ELSE StrLess(Tail(a), Tail(b))

------------------------------------------------------------------------------
\* Data.

AdminEmail == "admin@example.com"
Trader1Email == "trader1@example.com"
Trader2Email == "trader2@example.com"

\* The id uuid4() gives the sample user `email` in run `run` of the script.
UserId(email, run) == "uuid-" \o ToString(run) \o "-" \o email

\* The stocks of the sample data the sample positions refer to, with the
\* id uuid4() gave each when it was first stored.
SampleStocks ==
    { [id |-> "RELIANCE", symbol |-> "RELIANCE", price |-> 2500 * Unit],
      [id |-> "TCS", symbol |-> "TCS", price |-> 3600 * Unit],
      [id |-> "HDFCBANK", symbol |-> "HDFCBANK", price |-> 1600 * Unit] }

\* Stock ids a request may name: two stored stocks and an id of no stock.
RequestStockIds == {"RELIANCE", "HDFCBANK", "NOSUCH"}

\* Prices an external update may quote, and the stocks it quotes them for.
Prices == {2501 * Unit}
PricedStockIds == {"HDFCBANK"}

\* Values of the quantity form field.
Quantities == {-10, 0, 10, 20}

Forms ==
    {[method |-> "GET", quantity |-> 0]}
        \cup {[method |-> "POST", quantity |-> q] : q \in Quantities}

\* Flask sessions a request may carry: none, the admin's, trader one's.
NoSession == [email |-> "", role |-> ""]
Sessions ==
    { NoSession,
      [email |-> AdminEmail, role |-> "admin"],
      [email |-> Trader1Email, role |-> "trader"] }

NoUser == ""
NoItem == [present |-> FALSE, quantity |-> 0, average_price |-> 0]

IdleReq ==
    [ pc |-> "idle", route |-> "", user_id |-> NoUser, stock_id |-> "",
      method |-> "", quantity |-> 0, price |-> 0, portfolio_entry |-> NoItem,
      existing |-> FALSE, new_quantity |-> 0, average_price |-> 0,
      published |-> "", response |-> "", total_value |-> 0,
      transactions |-> <<>>, session |-> NoSession, traders |-> <<>> ]

\* The locals of a request that is about to return response o.
Ending(o) == [IdleReq EXCEPT !.pc = "respond", !.response = o]

\* The locals of a trade request that one of the handler's checks on the
\* session, the stock, the position or the form is about to turn away with
\* response o: the stock id when the handler has looked it up and, when it
\* has read the form, the form.
Rejected(o, route, stock_id, method, quantity) ==
    [Ending(o) EXCEPT !.route = route, !.stock_id = stock_id,
                      !.method = method, !.quantity = quantity]

\* Key naming the user alone: the positions of one user share one item.
Key_of_user(r) == <<req[r].user_id, "">>

\* The key of the position a trade request reads and writes.
Key(r) == <<req[r].user_id, req[r].stock_id>>

------------------------------------------------------------------------------
\* Data access functions.

get_user_by_email(email) ==
    IF email \in DOMAIN users
    THEN [found |-> TRUE, id |-> users[email].id, role |-> users[email].role]
    ELSE [found |-> FALSE, id |-> NoUser, role |-> ""]

get_user_by_id(user_id) ==
    \E e \in DOMAIN users : users[e].id = user_id

get_stock_by_id(stock_id) ==
    IF stock_id \in DOMAIN stocks
    THEN [found |-> TRUE, price |-> stocks[stock_id].price]
    ELSE [found |-> FALSE, price |-> 0]

get_portfolio_item(key) ==
    IF key \in DOMAIN portfolio
    THEN [present |-> TRUE, quantity |-> portfolio[key].quantity,
          average_price |-> portfolio[key].average_price]
    ELSE NoItem

Put(table, key, item) ==
    [k \in DOMAIN table \cup {key} |-> IF k = key THEN item ELSE table[k]]

Delete(table, key) ==
    [k \in DOMAIN table \ {key} |-> table[k]]

\* put_item of a transaction that loses the item: the log stays as it was.
PutTransaction_dropped(table, item) == table

\* put_item of a transaction under a key the table already holds: the item
\* replaces the last one logged.
PutTransaction_same_id(table, item) ==
    IF table = <<>> THEN <<item>>
    ELSE [table EXCEPT ![Len(table)] = item]

\* put_item of a transaction: its id is a new uuid4, a key the table does
\* not hold, so the item is added and no item is replaced.
PutTransaction(table, item) == Append(table, item)

\* create_transaction storing the price of the trade as the total paid,
\* quantity times price.
create_transaction_total_price(user_id, stock_id, action, quantity, price) ==
    [ user_id |-> user_id, stock_id |-> stock_id, action |-> action,
      quantity |-> quantity, price |-> FloatRoundTrip(quantity * price),
      status |-> "completed" ]

\* The record create_transaction stores; price arrives as a float.
create_transaction(user_id, stock_id, action, quantity, price) ==
    [ user_id |-> user_id, stock_id |-> stock_id, action |-> action,
      quantity |-> quantity, price |-> FloatRoundTrip(price),
      status |-> "completed" ]

\* update_portfolio with the first test widened to quantity >= 0: a
\* position sold out is updated to quantity 0 instead of deleted.
update_portfolio_stores_zero(table, existing, key, quantity, average_price) ==
    IF existing /\ quantity >= 0
    THEN Put(table, key, [quantity |-> quantity, average_price |-> average_price])
    ELSE IF existing /\ quantity <= 0
    THEN Delete(table, key)
    ELSE IF quantity > 0
    THEN Put(table, key, [quantity |-> quantity, average_price |-> average_price])
    ELSE table

\* update_portfolio without its last branch: no item is created.
update_portfolio_update_only(table, existing, key, quantity, average_price) ==
    IF existing /\ quantity > 0
    THEN Put(table, key, [quantity |-> quantity, average_price |-> average_price])
    ELSE IF existing /\ quantity <= 0
    THEN Delete(table, key)
    ELSE table

\* update_portfolio after its own read: the table as its one write leaves it.
update_portfolio(table, existing, key, quantity, average_price) ==
    IF existing /\ quantity > 0
    THEN Put(table, key, [quantity |-> quantity, average_price |-> average_price])
    ELSE IF existing /\ quantity <= 0
    THEN Delete(table, key)
    ELSE IF quantity > 0
    THEN Put(table, key, [quantity |-> quantity, average_price |-> average_price])
    ELSE table

------------------------------------------------------------------------------
\* The arithmetic of the handlers.

\* BuyArgs dividing the total value by the quantity bought instead of the
\* total quantity.
BuyArgs_divides_by_bought(entry, quantity, price) ==
    IF entry.present
    THEN LET total_value ==
                 DecAdd(DecMul(entry.quantity, entry.average_price),
                        DecMul(quantity, price))
         IN  [ quantity |-> quantity,
               average_price |-> DecDiv(total_value, quantity) ]
    ELSE [quantity |-> quantity, average_price |-> price]

\* buy_stock: the quantity and average price it hands to update_portfolio.
BuyArgs(entry, quantity, price) ==
    IF entry.present
    THEN LET total_value ==
                 DecAdd(DecMul(entry.quantity, entry.average_price),
                        DecMul(quantity, price))
             total_quantity == entry.quantity + quantity
         IN  [ quantity |-> quantity,
               average_price |-> DecDiv(total_value, total_quantity) ]
    ELSE [quantity |-> quantity, average_price |-> price]

\* SellCovered with >= for >: selling all that is held is refused.
SellCovered_strict(entry, quantity) == ~(quantity >= entry.quantity)

\* sell_stock: whether the held quantity covers the sale.
SellCovered(entry, quantity) == ~(quantity > entry.quantity)

\* sell_stock: the quantity and average price it hands to update_portfolio.
SellArgs(entry, quantity) ==
    LET remaining_quantity == entry.quantity - quantity
    IN  [ quantity |-> remaining_quantity,
          average_price |->
              IF remaining_quantity > 0
              THEN FloatRoundTrip(entry.average_price)
              ELSE 0 ]

------------------------------------------------------------------------------
Init ==
    /\ users = <<>>
    /\ stocks = <<>>
    /\ transactions = <<>>
    /\ portfolio = <<>>
    /\ req = [r \in Reqs |-> IdleReq]
    /\ seedRuns = 0
    /\ succeeded = 0


\* Logged trades of the handlers: every run of add_sample_data logs three.
NumTrades == Len(transactions) - 3 * seedRuns

\* Requests that are past validation, or may pass it, and have not logged.
Pending ==
    Cardinality({r \in Reqs : req[r].pc \in {"sell_get_item", "create_transaction"}})

CanBegin(r) ==
    /\ req[r].pc = "idle"
    /\ NumTrades + Pending < MaxTrades

\* Rejection without the test of the session's role: any logged-in user
\* passes.
Rejection_unchecked_role(session, stock_id) ==
    IF session.email = "" THEN "AccessDenied"
    ELSE IF ~get_user_by_email(session.email).found THEN "AccountMissing"
    ELSE IF ~get_stock_by_id(stock_id).found THEN "UnknownStock"
    ELSE ""

\* Rejection without the test of the stock it read.
Rejection_unchecked_stock(session, stock_id) ==
    IF session.email = "" \/ session.role # "trader" THEN "AccessDenied"
    ELSE IF ~get_user_by_email(session.email).found THEN "AccountMissing"
    ELSE ""

\* The checks buy_stock and sell_stock share: the session, the user (read
\* twice), the stock.  "" when the request passes them.
Rejection(session, stock_id) ==
    IF session.email = "" \/ session.role # "trader" THEN "AccessDenied"
    ELSE IF ~get_user_by_email(session.email).found THEN "AccountMissing"
    ELSE IF ~get_stock_by_id(stock_id).found THEN "UnknownStock"
    ELSE ""

\* The locals of a trade request that passed the shared checks.
Started(route, pc, session, stock_id, form) ==
    [IdleReq EXCEPT
        !.pc = pc, !.route = route, !.session = session,
        !.user_id = get_user_by_email(session.email).id,
        !.stock_id = stock_id, !.method = form.method,
        !.quantity = form.quantity,
        !.price = get_stock_by_id(stock_id).price]

\* buy_stock up to its first write: the session check, the reads of the
\* user and the stock, the method and the quantity.
BuyStockBegin(r) ==
    /\ CanBegin(r)
    /\ \E session \in Sessions, stock_id \in RequestStockIds, form \in Forms :
         req' = [req EXCEPT ![r] =
             IF Rejection(session, stock_id) = "UnknownStock"
             THEN Rejected("UnknownStock", "buy", stock_id, "", 0)
             ELSE IF Rejection(session, stock_id) # ""
             THEN Rejected(Rejection(session, stock_id), "buy", "", "", 0)
             ELSE IF form.method = "GET" THEN Ending("Rendered")
             ELSE IF form.quantity <= 0
             THEN Rejected("InvalidQuantity", "buy", stock_id,
                           form.method, form.quantity)
             ELSE Started("buy", "create_transaction", session, stock_id, form)]
    /\ UNCHANGED <<users, stocks, transactions, portfolio, seedRuns, succeeded>>

\* sell_stock up to its read of the position: the session check, the reads
\* of the user and the stock.
SellStockBegin(r) ==
    /\ CanBegin(r)
    /\ \E session \in Sessions, stock_id \in RequestStockIds, form \in Forms :
         req' = [req EXCEPT ![r] =
             IF Rejection(session, stock_id) = "UnknownStock"
             THEN Rejected("UnknownStock", "sell", stock_id, "", 0)
             ELSE IF Rejection(session, stock_id) # ""
             THEN Rejected(Rejection(session, stock_id), "sell", "", "", 0)
             ELSE Started("sell", "sell_get_item", session, stock_id, form)]
    /\ UNCHANGED <<users, stocks, transactions, portfolio, seedRuns, succeeded>>

\* SellRejection without the test of the position it read: an absent
\* position goes on to the checks of the form.
SellRejection_unchecked_holding(portfolio_entry, method, quantity) ==
    IF method = "GET" THEN "Rendered"
    ELSE IF quantity <= 0 THEN "InvalidQuantity"
    ELSE IF ~SellCovered(portfolio_entry, quantity) THEN "InsufficientShares"
    ELSE ""

\* sell_stock: how its checks on the position it read end; "" when the
\* sale goes ahead.
SellRejection(portfolio_entry, method, quantity) ==
    IF ~portfolio_entry.present THEN "NoHolding"
    ELSE IF method = "GET" THEN "Rendered"
    ELSE IF quantity <= 0 THEN "InvalidQuantity"
    ELSE IF ~SellCovered(portfolio_entry, quantity) THEN "InsufficientShares"
    ELSE ""

\* sell_stock: the read of the position and the checks on it.
SellStockCheck(r) ==
    /\ req[r].pc = "sell_get_item"
    /\ LET portfolio_entry == get_portfolio_item(Key(r))
           rejected == SellRejection(portfolio_entry, req[r].method, req[r].quantity)
       IN  req' = [req EXCEPT ![r] =
               IF rejected = "NoHolding"
               THEN Rejected(rejected, "sell", req[r].stock_id, "", 0)
               ELSE IF rejected = "Rendered" THEN Ending(rejected)
               ELSE IF rejected # ""
               THEN Rejected(rejected, "sell", req[r].stock_id,
                             req[r].method, req[r].quantity)
               ELSE [@ EXCEPT !.pc = "create_transaction",
                              !.portfolio_entry = portfolio_entry]]
    /\ UNCHANGED <<users, stocks, transactions, portfolio, seedRuns, succeeded>>

\* The trade's create_transaction; sell_stock then computes what it hands
\* to update_portfolio from the position it read before.
TradeCreateTransaction(r) ==
    /\ req[r].pc = "create_transaction"
    /\ transactions' =
           PutTransaction(transactions,
                  create_transaction(req[r].user_id, req[r].stock_id, req[r].route,
                                     req[r].quantity, req[r].price))
    /\ req' = [req EXCEPT ![r] =
           IF req[r].route = "buy"
           THEN [@ EXCEPT !.pc = "get_portfolio_item"]
           ELSE LET args == SellArgs(req[r].portfolio_entry, req[r].quantity)
                IN  [@ EXCEPT !.pc = "update_get",
                              !.new_quantity = args.quantity,
                              !.average_price = args.average_price]]
    /\ UNCHANGED <<users, stocks, portfolio, seedRuns, succeeded>>

\* buy_stock: the read of the position and the new average computed from it.
BuyStockGetItem(r) ==
    /\ req[r].pc = "get_portfolio_item"
    /\ LET portfolio_entry == get_portfolio_item(Key(r))
           args == BuyArgs(portfolio_entry, req[r].quantity, req[r].price)
       IN  req' = [req EXCEPT ![r] =
               [@ EXCEPT !.pc = "update_get",
                         !.portfolio_entry = portfolio_entry,
                         !.new_quantity = args.quantity,
                         !.average_price = args.average_price]]
    /\ UNCHANGED <<users, stocks, transactions, portfolio, seedRuns, succeeded>>

\* update_portfolio: its own read of the position.
UpdatePortfolioGet(r) ==
    /\ req[r].pc = "update_get"
    /\ req' = [req EXCEPT ![r] =
           [@ EXCEPT !.pc = "update_write",
                     !.existing = get_portfolio_item(Key(r)).present]]
    /\ UNCHANGED <<users, stocks, transactions, portfolio, seedRuns, succeeded>>

\* UpdatePortfolioWrite going back to update_portfolio's read after the
\* write: the request writes the position again.
UpdatePortfolioWrite_repeats(r) ==
    /\ req[r].pc = "update_write"
    /\ portfolio' =
           update_portfolio(portfolio, req[r].existing, Key(r),
                            req[r].new_quantity, req[r].average_price)
    /\ req' = [req EXCEPT ![r] =
           [@ EXCEPT !.pc = IF req[r].existing THEN "send_notification"
                            ELSE "update_get"]]
    /\ UNCHANGED <<users, stocks, transactions, seedRuns, succeeded>>

\* update_portfolio: its one write (update_item, delete_item or put_item).
UpdatePortfolioWrite(r) ==
    /\ req[r].pc = "update_write"
    /\ portfolio' =
           update_portfolio(portfolio, req[r].existing, Key(r),
                            req[r].new_quantity, req[r].average_price)
    /\ req' = [req EXCEPT ![r] = [@ EXCEPT !.pc = "send_notification"]]
    /\ UNCHANGED <<users, stocks, transactions, seedRuns, succeeded>>

\* TradeSendNotification with a send_notification that lets the exception
\* of sns.publish through: a failed publish ends the request with the
\* server's error.
TradeSendNotification_raises(r) ==
    /\ req[r].pc = "send_notification"
    /\ \E sent \in BOOLEAN :
         /\ req' = [req EXCEPT ![r] =
                IF sent
                THEN [Ending("Success") EXCEPT !.published = "sent"]
                ELSE [Ending("InternalServerError") EXCEPT !.published = "failed"]]
         /\ succeeded' = IF sent THEN succeeded + 1 ELSE succeeded
    /\ UNCHANGED <<users, stocks, transactions, portfolio, seedRuns>>

\* send_notification returns whether sns.publish went through; the handler
\* drops the result and reports success.
TradeSendNotification(r) ==
    /\ req[r].pc = "send_notification"
    /\ \E sent \in BOOLEAN :
         req' = [req EXCEPT ![r] =
             [Ending("Success") EXCEPT
                 !.published = IF sent THEN "sent" ELSE "failed"]]
    /\ succeeded' = succeeded + 1
    /\ UNCHANGED <<users, stocks, transactions, portfolio, seedRuns>>

\* The handler returns and the slot is free for the next request.
Respond(r) ==
    /\ req[r].pc = "respond"
    /\ req' = [req EXCEPT ![r] = IdleReq]
    /\ UNCHANGED <<users, stocks, transactions, portfolio, seedRuns, succeeded>>

\* A DynamoDB call of the handler raises (botocore ClientError): no handler
\* catches it, the request ends with the server's error page and what it
\* had not yet written stays unwritten.  The call is the one the request is
\* about to make: a read of its checks, create_transaction's put_item,
\* a get_item, or update_portfolio's write.
StorageCallPcs ==
    {"sell_get_item", "create_transaction", "get_portfolio_item",
     "update_get", "update_write"}

StorageFailure(r) ==
    /\ req[r].pc \in StorageCallPcs
    /\ req' = [req EXCEPT ![r] = Ending("InternalServerError")]
    /\ UNCHANGED <<users, stocks, transactions, portfolio, seedRuns, succeeded>>

------------------------------------------------------------------------------
\* The rest of the system.

\* The price of a stock is quoted from outside the program.
SetStockPrice ==
    /\ \E stock_id \in DOMAIN stocks \cap PricedStockIds, price \in Prices :
         /\ stocks[stock_id].price # price
         /\ stocks' = [stocks EXCEPT ![stock_id].price = price]
    /\ UNCHANGED <<users, transactions, portfolio, req, seedRuns, succeeded>>

SampleUsers ==
    { [email |-> AdminEmail, role |-> "admin"],
      [email |-> Trader1Email, role |-> "trader"],
      [email |-> Trader2Email, role |-> "trader"] }

\* The sample trades, in the order the script writes them.
SamplePositions(run) ==
    << [user_id |-> UserId(Trader1Email, run), symbol |-> "RELIANCE",
        quantity |-> 10, price |-> 2500 * Unit],
       [user_id |-> UserId(Trader1Email, run), symbol |-> "TCS",
        quantity |-> 5, price |-> 3600 * Unit],
       [user_id |-> UserId(Trader2Email, run), symbol |-> "HDFCBANK",
        quantity |-> 15, price |-> 1600 * Unit] >>

\* One sample trade: written unless the log holds a transaction of the
\* same user id and stock id.  st is the log and the position table.
SeedPosition(st, stock_table, sp) ==
    LET stock_id ==
            CHOOSE id \in DOMAIN stock_table : stock_table[id].symbol = sp.symbol
        logged ==
            \E i \in 1..Len(st.transactions) :
                /\ st.transactions[i].user_id = sp.user_id
                /\ st.transactions[i].stock_id = stock_id
    IN  IF logged THEN st
        ELSE [ transactions |->
                   PutTransaction(st.transactions,
                          [ user_id |-> sp.user_id, stock_id |-> stock_id,
                            action |-> "buy", quantity |-> sp.quantity,
                            price |-> sp.price, status |-> "completed" ]),
               portfolio |->
                   Put(st.portfolio, <<sp.user_id, stock_id>>,
                       [quantity |-> sp.quantity, average_price |-> sp.price]) ]

\* setup_dynamodb.py: one run of add_sample_data, of at most max.  Every run
\* draws new ids for its users; a user or a stock is stored only when its
\* email or its symbol is not stored yet.
AddSampleData(max) ==
    /\ seedRuns < max
    /\ LET run == seedRuns + 1
           new_users == {u \in SampleUsers : u.email \notin DOMAIN users}
           new_stocks ==
               {s \in SampleStocks :
                   ~\E id \in DOMAIN stocks : stocks[id].symbol = s.symbol}
           stock_table ==
               [id \in DOMAIN stocks \cup {s.id : s \in new_stocks} |->
                   IF id \in DOMAIN stocks THEN stocks[id]
                   ELSE LET s == CHOOSE x \in new_stocks : x.id = id
                        IN  [symbol |-> s.symbol, price |-> s.price]]
           sp == SamplePositions(run)
           st0 == [transactions |-> transactions, portfolio |-> portfolio]
           st1 == SeedPosition(st0, stock_table, sp[1])
           st2 == SeedPosition(st1, stock_table, sp[2])
           st3 == SeedPosition(st2, stock_table, sp[3])
       IN  /\ users' =
                [e \in DOMAIN users \cup {u.email : u \in new_users} |->
                    IF e \in DOMAIN users THEN users[e]
                    ELSE LET u == CHOOSE x \in new_users : x.email = e
                         IN  [id |-> UserId(e, run), role |-> u.role]]
           /\ stocks' = stock_table
           /\ transactions' = st3.transactions
           /\ portfolio' = st3.portfolio
    /\ seedRuns' = seedRuns + 1
    /\ UNCHANGED <<req, succeeded>>

\* The seeding script as the specifications of the trades run it.
add_sample_data == AddSampleData(MaxSeedRuns)

\* The seeding script run again on the store it has seeded.
add_sample_data_again == AddSampleData(MaxReseeds)

\* Ids the admin may ask to delete: both sample traders of the first run
\* and an id of no user.
TraderIds == {UserId(Trader1Email, 1), UserId(Trader2Email, 1), "uuid-0"}

\* delete_trader_by_id: False when no user has the id; otherwise it deletes
\* the user-table item whose email KEY equals the id, and then reads
\* portfolio_response before assigning it, which raises UnboundLocalError.
delete_trader_by_id(trader_id) ==
    IF ~get_user_by_id(trader_id)
    THEN [users |-> users, result |-> "False"]
    ELSE [users |-> Delete(users, trader_id), result |-> "UnboundLocalError"]

\* The delete_trader route, from the session check to the exception; the
\* request keeps the trader id it passed to delete_trader_by_id.
delete_trader(r) ==
    /\ req[r].pc = "idle"
    /\ \E session \in Sessions, trader_id \in TraderIds :
         IF session.email = "" \/ session.role # "admin"
         THEN req' = [req EXCEPT ![r] = Ending("AccessDenied")] /\ users' = users
         ELSE IF ~get_user_by_email(session.email).found
         THEN req' = [req EXCEPT ![r] = Ending("AccountMissing")] /\ users' = users
         ELSE /\ users' = delete_trader_by_id(trader_id).users
              /\ req' = [req EXCEPT ![r] =
                     [Ending(delete_trader_by_id(trader_id).result) EXCEPT
                         !.route = "delete_trader", !.user_id = trader_id]]
    /\ UNCHANGED <<stocks, transactions, portfolio, seedRuns, succeeded>>

------------------------------------------------------------------------------
\* The portfolio view.

\* The order in which a query of the portfolio table returns the items of
\* one user: by the sort key, the stock id.
QueryOrder == <<"HDFCBANK", "RELIANCE", "TCS">>

\* get_user_portfolio: the user's items, each with its stock when the stock
\* table holds it.
get_user_portfolio(user_id) ==
    LET held == SelectSeq(QueryOrder, LAMBDA id : <<user_id, id>> \in DOMAIN portfolio)
    IN  [i \in 1..Len(held) |->
            [ stock_id |-> held[i],
              quantity |-> portfolio[<<user_id, held[i]>>].quantity,
              has_stock |-> get_stock_by_id(held[i]).found,
              stock_price |-> get_stock_by_id(held[i]).price ]]

\* service05: total_value, summed in floats over the items in their order.
RECURSIVE PortfolioValue(_, _)
PortfolioValue(total_value, items) ==
    IF items = <<>> THEN total_value
    ELSE LET item == Head(items)
         IN  PortfolioValue(
                 IF item.has_stock
                 THEN FloatAdd(total_value,
                               FloatMul(Float(item.quantity), Float(item.stock_price)))
                 ELSE total_value,
                 Tail(items))

\* x.get('transaction_date', '')
DateKey(x) ==
    IF "transaction_date" \in DOMAIN x THEN x.transaction_date ELSE <<>>

\* One step of list.sort(key=DateKey, reverse=True): x goes behind the
\* items whose key is not below its own.
RECURSIVE InsertDescending(_, _)
InsertDescending(sorted, x) ==
    IF sorted = <<>> THEN <<x>>
    ELSE IF StrLess(DateKey(Head(sorted)), DateKey(x)) THEN <<x>> \o sorted
    ELSE <<Head(sorted)>> \o InsertDescending(Tail(sorted), x)

RECURSIVE SortDescending(_, _)
SortDescending(sorted, items) ==
    IF items = <<>> THEN sorted
    ELSE SortDescending(InsertDescending(sorted, Head(items)), Tail(items))

\* get_user_transactions with the earliest date first.
get_user_transactions_ascending(user_id) ==
    LET sorted == SortDescending(<<>>,
                      SelectSeq(transactions, LAMBDA t : t.user_id = user_id))
    IN  [i \in 1..Len(sorted) |-> sorted[Len(sorted) + 1 - i]]

\* get_user_transactions: the scanned items of the user, latest date first.
\* The table is read in the order the scan returns it.
get_user_transactions(user_id) ==
    SortDescending(<<>>, SelectSeq(transactions, LAMBDA t : t.user_id = user_id))

\* service05: the dates of the listed transactions turned into datetimes.
WithDatetimes(listed) ==
    [i \in 1..Len(listed) |->
        [listed[i] EXCEPT !.transaction_date = fromisoformat(@)]]

\* The service05 route: the session check, the reads of the user, the
\* portfolio and its value, the transaction history.
service05(r) ==
    /\ req[r].pc = "idle"
    /\ \E session \in Sessions :
         req' = [req EXCEPT ![r] =
             IF session.email = "" \/ session.role # "trader"
             THEN Ending("AccessDenied")
             ELSE IF ~get_user_by_email(session.email).found
             THEN Ending("AccountMissing")
             ELSE LET user_id == get_user_by_email(session.email).id
                  IN  [Ending("Rendered") EXCEPT
                          !.route = "service05",
                          !.user_id = user_id,
                          !.total_value =
                              PortfolioValue(0, get_user_portfolio(user_id)),
                          !.transactions =
                              WithDatetimes(get_user_transactions(user_id))]]
    /\ UNCHANGED <<users, stocks, transactions, portfolio, seedRuns, succeeded>>

\* get_traders: the ids of the stored users with the role trader.
get_traders == {users[e].id : e \in {x \in DOMAIN users : users[x].role = "trader"}}

\* service01: portfolio_value, summed in floats over the items in their
\* order; every item is taken to carry its stock.
RECURSIVE TraderPortfolioValue(_, _)
TraderPortfolioValue(portfolio_value, items) ==
    IF items = <<>> THEN portfolio_value
    ELSE TraderPortfolioValue(
             FloatAdd(portfolio_value,
                      FloatMul(Float(Head(items).quantity),
                               Float(Head(items).stock_price))),
             Tail(items))

\* The service01 route: the session check, the read of the user, the
\* traders and the value of each one's portfolio.  item['stock'] raises
\* KeyError for an item whose stock the stock table does not hold; nothing
\* catches it.
service01(r) ==
    /\ req[r].pc = "idle"
    /\ \E session \in Sessions :
         req' = [req EXCEPT ![r] =
             IF session.email = "" \/ session.role # "admin"
             THEN Ending("AccessDenied")
             ELSE IF ~get_user_by_email(session.email).found
             THEN Ending("AccountMissing")
             ELSE IF \E id \in get_traders :
                        \E i \in DOMAIN get_user_portfolio(id) :
                            ~get_user_portfolio(id)[i].has_stock
             THEN [Ending("InternalServerError") EXCEPT !.route = "service01"]
             ELSE [Ending("Rendered") EXCEPT
                      !.route = "service01",
                      !.traders =
                          [id \in get_traders |->
                              TraderPortfolioValue(0, get_user_portfolio(id))]]]
    /\ UNCHANGED <<users, stocks, transactions, portfolio, seedRuns, succeeded>>

------------------------------------------------------------------------------
RequestStep(r) ==
    \/ BuyStockBegin(r)
    \/ SellStockBegin(r)
    \/ SellStockCheck(r)
    \/ TradeCreateTransaction(r)
    \/ BuyStockGetItem(r)
    \/ UpdatePortfolioGet(r)
    \/ UpdatePortfolioWrite(r)
    \/ TradeSendNotification(r)
    \/ delete_trader(r)
    \/ Respond(r)

Next ==
    \/ \E r \in Reqs : RequestStep(r)
    \/ SetStockPrice
    \/ add_sample_data

\* Concurrent requests, as a threaded server runs them, over a store whose
\* calls succeed.
Spec == Init /\ [][Next]_vars

\* One request at a time over a store whose calls succeed: only slot 1
\* serves.
NextSeq ==
    \/ RequestStep(1)
    \/ SetStockPrice
    \/ add_sample_data

SpecSeq == Init /\ [][NextSeq]_vars

\* One request at a time, and the seeding script run again.
NextReseed ==
    \/ RequestStep(1)
    \/ SetStockPrice
    \/ add_sample_data_again

SpecReseed == Init /\ [][NextReseed]_vars

\* Concurrent requests over a store whose calls may fail.
NextFaulty ==
    \/ \E r \in Reqs : RequestStep(r)
    \/ \E r \in Reqs : StorageFailure(r)
    \/ SetStockPrice
    \/ add_sample_data

SpecFaulty == Init /\ [][NextFaulty]_vars

\* Concurrent requests that trade on different keys: the requests of one
\* slot all name the same stock, and no two slots a stock both can trade.
SlotStock(r) ==
    IF r = 1 THEN "RELIANCE" ELSE IF r = 2 THEN "HDFCBANK" ELSE "NOSUCH"

NextKeys ==
    \/ \E r \in Reqs :
           /\ RequestStep(r)
           /\ req'[r].route \in {"buy", "sell"}
                  => req'[r].stock_id \in {"", SlotStock(r)}
    \/ SetStockPrice
    \/ add_sample_data

SpecKeys == Init /\ [][NextKeys]_vars

------------------------------------------------------------------------------
\* The portfolio view over the tables a view may find.

\* Quantities of the positions and quotes of HDFCBANK a view may find.
ViewQuantities == {5, 15}
ViewPrices == {1600 * Unit, 2501 * Unit + Unit \div 10}

\* The users table as the seeding script leaves it.
SeededUsers ==
    [e \in {u.email : u \in SampleUsers} |->
        [id |-> UserId(e, 1),
         role |-> IF e = AdminEmail THEN "admin" ELSE "trader"]]

Timestamps == (0..MaxSecond) \X (0..MaxMicro)

\* Items of the transactions table: the transactions of two users at the
\* modelled clock readings.
ViewTransactions ==
    { [ user_id |-> UserId(e, 1), stock_id |-> "RELIANCE", action |-> "buy",
        quantity |-> 10, price |-> 2500 * Unit, status |-> "completed",
        transaction_date |-> isoformat(t) ] :
          e \in {Trader1Email, Trader2Email}, t \in Timestamps }

\* The positions of trader one: any of the three stocks held or not, each
\* at the sample price as its average cost; and the seeded position of
\* trader two.
ViewPortfolios ==
    { [k \in ({<<UserId(Trader1Email, 1), id>> : id \in held}
                 \cup {<<UserId(Trader2Email, 1), "HDFCBANK">>}) |->
          [quantity |-> IF k[1] = UserId(Trader2Email, 1) THEN 15 ELSE q,
           average_price |->
               (CHOOSE x \in SampleStocks : x.id = k[2]).price]] :
        held \in SUBSET {"RELIANCE", "TCS", "HDFCBANK"}, q \in ViewQuantities }

InitView ==
    /\ users = SeededUsers
    /\ \E price \in ViewPrices :
         stocks = [id \in {s.id : s \in SampleStocks} |->
                      LET s == CHOOSE x \in SampleStocks : x.id = id
                      IN  [symbol |-> s.symbol,
                           price |-> IF id = "HDFCBANK" THEN price ELSE s.price]]
    /\ transactions \in UNION {[1..n -> ViewTransactions] : n \in 0..MaxListed}
    /\ portfolio \in ViewPortfolios
    /\ req = [r \in Reqs |-> IdleReq]
    /\ seedRuns = 1
    /\ succeeded = 0

NextView ==
    \/ service05(1)
    \/ Respond(1)

SpecView == InitView /\ [][NextView]_vars

\* The stores the two views of a portfolio's value may find: as for the
\* portfolio view, and with the stock table holding TCS or not.
InitValues ==
    /\ users = SeededUsers
    /\ \E price \in ViewPrices, ids \in {{"RELIANCE", "HDFCBANK"},
                                          {"RELIANCE", "HDFCBANK", "TCS"}} :
         stocks = [id \in ids |->
                      LET s == CHOOSE x \in SampleStocks : x.id = id
                      IN  [symbol |-> s.symbol,
                           price |-> IF id = "HDFCBANK" THEN price ELSE s.price]]
    /\ transactions \in UNION {[1..n -> ViewTransactions] : n \in 0..1}
    /\ portfolio \in ViewPortfolios
    /\ req = [r \in Reqs |-> IdleReq]
    /\ seedRuns = 1
    /\ succeeded = 0

\* The admin opens service01 in slot 1 while a trader opens service05 in
\* slot 2.
NextValues ==
    \/ service01(1)
    \/ service05(2)
    \/ \E r \in Reqs : Respond(r)

SpecValues == InitValues /\ [][NextValues]_vars

------------------------------------------------------------------------------
\* What the claims speak of.

\* Request r has just done the write of its update_portfolio.
Wrote(r) == req[r].pc = "send_notification"

\* The step in which request r does the write of its update_portfolio.
WriteStep(r) == req[r].pc = "update_write" /\ req'[r].pc = "send_notification"

\* Request r is between its read of the position and its write of it.
InReadModifyWrite(r) ==
    \/ req[r].route = "buy" /\ req[r].pc \in {"update_get", "update_write"}
    \/ req[r].route = "sell"
         /\ req[r].pc \in {"create_transaction", "update_get", "update_write"}

\* Request r has logged its transaction and not yet written the position.
BetweenWrites(r) ==
    req[r].pc \in {"get_portfolio_item", "update_get", "update_write"}

\* The logged transactions of one (user, stock) key, in log order.
KeyTxns(k) ==
    SelectSeq(transactions, LAMBDA t : t.user_id = k[1] /\ t.stock_id = k[2])

LoggedKeys == {<<transactions[i].user_id, transactions[i].stock_id>> :
                  i \in 1..Len(transactions)}

\* The position table of key k alone after the trades txns, run one after
\* the other through the handlers' arithmetic and update_portfolio.
RECURSIVE Replay(_, _, _)
Replay(table, k, txns) ==
    IF txns = <<>> THEN table
    ELSE LET txn == Head(txns)
             entry == IF k \in DOMAIN table
                      THEN [present |-> TRUE, quantity |-> table[k].quantity,
                            average_price |-> table[k].average_price]
                      ELSE NoItem
             args == IF txn.action = "buy"
                     THEN BuyArgs(entry, txn.quantity, txn.price)
                     ELSE SellArgs(entry, txn.quantity)
         IN  Replay(update_portfolio(table, entry.present, k,
                                     args.quantity, args.average_price),
                    k, Tail(txns))

RECURSIVE SumQuantity(_)
SumQuantity(txns) ==
    IF txns = <<>> THEN 0 ELSE Head(txns).quantity + SumQuantity(Tail(txns))

RECURSIVE SumValue(_)
SumValue(txns) ==
    IF txns = <<>> THEN 0
    ELSE Head(txns).quantity * Head(txns).price + SumValue(Tail(txns))

\* The rounding one evaluation of the weighted-average formula may add to
\* a value of size x: three operations, each within half a unit in the last
\* of DecPrec significant digits.
RoundingSlack(x) == (2 * x) \div Pow10(DecPrec - 1)

------------------------------------------------------------------------------
\* C1: a successful buy of q on a key holding quantity Q0 leaves the stored
\* position with quantity Q0 + q.  (The code stores q.)
C1_BuyAddsToHeldQuantity ==
    \A r \in Reqs :
        (Wrote(r) /\ req[r].route = "buy" /\ req[r].portfolio_entry.present)
            => /\ Key(r) \in DOMAIN portfolio
               /\ portfolio[Key(r)].quantity =
                      req[r].portfolio_entry.quantity + req[r].quantity

\* C2, as claimed: a buy of q at price p on a position (Q0, P0) stores an
\* average cost A with A * (Q0 + q) = Q0 * P0 + q * p exactly.
C2_AverageCostExact ==
    [][\A r \in Reqs :
          (WriteStep(r) /\ req[r].route = "buy" /\ req[r].portfolio_entry.present)
              => /\ Key(r) \in DOMAIN portfolio'
                 /\ portfolio'[Key(r)].average_price
                        * (req[r].portfolio_entry.quantity + req[r].quantity)
                    = req[r].portfolio_entry.quantity
                          * req[r].portfolio_entry.average_price
                      + req[r].quantity * req[r].price]_vars

\* C2, amended: the stored average cost A satisfies the weighted-average
\* equation up to the rounding of the decimal context: A * (Q0 + q) differs
\* from Q0 * P0 + q * p by no more than 2 * 10^(1 - precision) of it.
C2_AverageCostRounded ==
    [][\A r \in Reqs :
          (WriteStep(r) /\ req[r].route = "buy" /\ req[r].portfolio_entry.present)
              => LET exact == req[r].portfolio_entry.quantity
                                  * req[r].portfolio_entry.average_price
                              + req[r].quantity * req[r].price
                     total == req[r].portfolio_entry.quantity + req[r].quantity
                 IN  /\ Key(r) \in DOMAIN portfolio'
                     /\ Abs(portfolio'[Key(r)].average_price * total - exact)
                            <= RoundingSlack(exact)]_vars

\* A buy on a held position has stored an average that the division rounded.
C2_Witness ==
    \E r \in Reqs :
        /\ Wrote(r) /\ req[r].route = "buy" /\ req[r].portfolio_entry.present
        /\ Key(r) \in DOMAIN portfolio
        /\ portfolio[Key(r)].average_price = req[r].average_price
        /\ req[r].average_price
               * (req[r].portfolio_entry.quantity + req[r].quantity)
           # req[r].portfolio_entry.quantity * req[r].portfolio_entry.average_price
                 + req[r].quantity * req[r].price

\* C3: a successful buy of q at price p on a key with no stored position
\* creates the position (q, p).
C3_FirstBuyCreatesPosition ==
    [][\A r \in Reqs :
          (WriteStep(r) /\ req[r].route = "buy" /\ ~req[r].portfolio_entry.present)
              => /\ Key(r) \in DOMAIN portfolio'
                 /\ portfolio'[Key(r)] =
                        [quantity |-> req[r].quantity,
                         average_price |-> req[r].price]]_vars

\* A buy that found no position has written (q, p) with q > 0.
C3_Witness ==
    \E r \in Reqs :
        /\ Wrote(r) /\ req[r].route = "buy" /\ ~req[r].portfolio_entry.present
        /\ req[r].quantity > 0
        /\ Key(r) \in DOMAIN portfolio
        /\ portfolio[Key(r)] =
               [quantity |-> req[r].quantity, average_price |-> req[r].price]

\* C4: after sequential buys (q1,p1),...,(qn,pn) on an empty position the
\* stored average cost is sum(qi*pi) / sum(qi); stated with the rounding n
\* evaluations of the formula may add.  (From the third buy on the code
\* averages over the quantity of the last buy only.)
C4_AverageIsWeightedMean ==
    \A k \in LoggedKeys :
        LET txns == KeyTxns(k)
        IN  ( /\ \A i \in 1..Len(txns) : txns[i].action = "buy"
              /\ \A r \in Reqs : ~(BetweenWrites(r) /\ Key(r) = k) )
                => /\ k \in DOMAIN portfolio
                   /\ Abs(portfolio[k].average_price * SumQuantity(txns)
                              - SumValue(txns))
                          <= Len(txns) * RoundingSlack(SumValue(txns))

\* C5: two concurrent buys of 10 and 20 at one price on a key that held
\* nothing end with a stored quantity of 30.
C5_ConcurrentBuysAddUp ==
    \A r1, r2 \in Reqs :
        ( /\ r1 # r2 /\ Wrote(r1) /\ Wrote(r2)
          /\ req[r1].route = "buy" /\ req[r2].route = "buy"
          /\ Key(r1) = Key(r2)
          /\ req[r1].quantity = 10 /\ req[r2].quantity = 20
          /\ req[r1].price = req[r2].price
          /\ Len(KeyTxns(Key(r1))) = 2 )
            => /\ Key(r1) \in DOMAIN portfolio
               /\ portfolio[Key(r1)].quantity = 30

\* C6: no two trades on one (user, stock) key are both between their read
\* of the position and their write of it.
C6_PerKeyMutualExclusion ==
    \A r1, r2 \in Reqs :
        (r1 # r2 /\ InReadModifyWrite(r1) /\ InReadModifyWrite(r2))
            => Key(r1) # Key(r2)

\* C7: every stored position has quantity > 0, whatever buys, sells, trader
\* deletions and seeding runs have interleaved.
C7_StoredQuantityPositive ==
    \A k \in DOMAIN portfolio : portfolio[k].quantity > 0

\* A sale of all that was held has written, and the position is gone.
C7_Witness ==
    \E r \in Reqs :
        /\ Wrote(r) /\ req[r].route = "sell" /\ req[r].new_quantity = 0
        /\ req[r].existing
        /\ Key(r) \notin DOMAIN portfolio

\* C8: a sell of more than is held ends with InsufficientShares and writes
\* nothing; a sell of what is held or less goes ahead.  No step of a sell up
\* to its checks writes the log or a position.
C8_OversellRejected ==
    [][\A r \in Reqs :
          /\ ( /\ req[r].pc = "sell_get_item"
               /\ req'[r] # req[r]
               /\ get_portfolio_item(Key(r)).present
               /\ req[r].method = "POST" /\ req[r].quantity > 0 )
                 => IF req[r].quantity > get_portfolio_item(Key(r)).quantity
                    THEN /\ req'[r].pc = "respond"
                         /\ req'[r].response = "InsufficientShares"
                    ELSE /\ req'[r].pc = "create_transaction"
                         /\ req'[r].quantity = req[r].quantity
          /\ ( /\ req'[r] # req[r]
               /\ req'[r].route = "sell" \/ req[r].route = "sell"
               /\ req'[r].pc \in {"sell_get_item", "create_transaction", "respond"} )
                 => transactions' = transactions /\ portfolio' = portfolio]_vars

\* A sell of more than was held has been refused.
C8_Witness ==
    \E r \in Reqs : req[r].pc = "respond" /\ req[r].response = "InsufficientShares"

\* C9: a successful sell of q < Q on a position (Q, P) leaves the position
\* (Q - q, P).  (The code hands P through a float.)
C9_PartialSellKeepsAverage ==
    \A r \in Reqs :
        ( /\ Wrote(r) /\ req[r].route = "sell"
          /\ req[r].quantity < req[r].portfolio_entry.quantity )
            => /\ Key(r) \in DOMAIN portfolio
               /\ portfolio[Key(r)] =
                      [quantity |-> req[r].portfolio_entry.quantity - req[r].quantity,
                       average_price |-> req[r].portfolio_entry.average_price]

\* The last transaction of a user in the log.
LastTxnOf(user_id) ==
    LET mine == SelectSeq(transactions, LAMBDA t : t.user_id = user_id)
    IN  mine[Len(mine)]

\* C10: a successful sell of exactly the held quantity deletes the position,
\* and the user's most recent transaction is a SELL of that quantity at the
\* execution price.
C10_FullSellDeletes ==
    \A r \in Reqs :
        ( /\ Wrote(r) /\ req[r].route = "sell"
          /\ req[r].quantity = req[r].portfolio_entry.quantity )
            => /\ Key(r) \notin DOMAIN portfolio
               /\ \E i \in 1..Len(transactions) :
                      transactions[i].user_id = req[r].user_id
               /\ LastTxnOf(req[r].user_id) =
                      [ user_id |-> req[r].user_id, stock_id |-> req[r].stock_id,
                        action |-> "sell", quantity |-> req[r].quantity,
                        price |-> req[r].price, status |-> "completed" ]

\* A sale of all that was held has written.
C10_Witness ==
    \E r \in Reqs :
        /\ Wrote(r) /\ req[r].route = "sell"
        /\ req[r].portfolio_entry.present
        /\ req[r].quantity = req[r].portfolio_entry.quantity
        /\ LastTxnOf(req[r].user_id).action = "sell"

\* C11: a sell on a (user, stock) key with no stored position ends with
\* NoHolding, whatever its form; neither that step nor the return of the
\* request appends a transaction or creates a position.
C11_SellWithoutHoldingRejected ==
    [][\A r \in Reqs :
          /\ ( /\ req[r].pc = "sell_get_item"
               /\ req'[r] # req[r]
               /\ Key(r) \notin DOMAIN portfolio )
                 => /\ req'[r].pc = "respond"
                    /\ req'[r].response = "NoHolding"
                    /\ transactions' = transactions
                    /\ portfolio' = portfolio
          /\ ( /\ req[r].pc = "respond" /\ req[r].response = "NoHolding"
               /\ req'[r] # req[r] )
                 => /\ req'[r] = IdleReq
                    /\ transactions' = transactions
                    /\ portfolio' = portfolio]_vars

\* A POST sell of a positive quantity of a stored stock has been refused
\* for want of a position, and the key still has none.
C11_Witness ==
    \E r \in Reqs :
        /\ req[r].pc = "respond" /\ req[r].response = "NoHolding"
        /\ req[r].route = "sell"
        /\ req[r].stock_id \in DOMAIN stocks
        /\ <<UserId(Trader1Email, 1), req[r].stock_id>> \notin DOMAIN portfolio

\* C12: a buy or a sell posted with quantity <= 0 ends with InvalidQuantity,
\* and no step of it changes the log or a position.  (sell_stock checks the
\* position before the quantity, and both handlers the stock.)
C12_NonPositiveQuantityRejected ==
    [][\A r \in Reqs :
          LET posted == IF req[r].pc = "idle" THEN req'[r] ELSE req[r]
          IN  ( /\ req'[r] # req[r]
                /\ posted.route \in {"buy", "sell"}
                /\ posted.method = "POST" /\ posted.quantity <= 0 )
                  => /\ transactions' = transactions
                     /\ portfolio' = portfolio
                     /\ req'[r].pc = "respond" /\ req[r].pc # "respond"
                            => req'[r].response = "InvalidQuantity"]_vars

\* C13: a buy or a sell of a logged-in trader that names a stock id the
\* stock table does not hold ends with UnknownStock; neither that step nor
\* the return of the request appends a transaction or changes a position.
C13_UnknownStockRejected ==
    [][\A r \in Reqs :
          /\ ( /\ req[r].pc = "idle" /\ req'[r] # req[r]
               /\ req'[r].route \in {"buy", "sell"}
               /\ req'[r].response \notin {"AccessDenied", "AccountMissing"}
               /\ req'[r].stock_id \notin DOMAIN stocks )
                 => /\ req'[r].pc = "respond"
                    /\ req'[r].response = "UnknownStock"
                    /\ transactions' = transactions
                    /\ portfolio' = portfolio
          /\ ( /\ req[r].pc = "respond" /\ req[r].response = "UnknownStock"
               /\ req'[r] # req[r] )
                 => /\ req'[r] = IdleReq
                    /\ transactions' = transactions
                    /\ portfolio' = portfolio]_vars

\* A trade naming an id of no stock has been refused while the stock table
\* holds the sample stocks.
C13_Witness ==
    \E r \in Reqs :
        /\ req[r].pc = "respond" /\ req[r].response = "UnknownStock"
        /\ req[r].route \in {"buy", "sell"}
        /\ req[r].stock_id \notin DOMAIN stocks
        /\ stocks # <<>>

\* C14: the transaction log is append-only: every step of the program (a
\* trade, a failed trade, a trader deletion, the deletion of a position, a
\* seeding run) leaves the logged transactions as they were and at most
\* adds new ones after them.
C14_LogAppendOnly ==
    [][ /\ Len(transactions') >= Len(transactions)
        /\ SubSeq(transactions', 1, Len(transactions)) = transactions ]_vars

\* A position was sold out and deleted, and the log holds its sale after
\* the transactions logged before it.
C14_Witness ==
    \E k \in LoggedKeys :
        /\ k \notin DOMAIN portfolio
        /\ Len(KeyTxns(k)) >= 2
        /\ KeyTxns(k)[Len(KeyTxns(k))].action = "sell"
        /\ \A r \in Reqs : req[r].pc \in {"idle", "respond"}

\* The transaction request r logs, or has logged, for its trade.
TxnOf(r) ==
    create_transaction(req[r].user_id, req[r].stock_id, req[r].route,
                       req[r].quantity, req[r].price)

Logged(txn) == \E i \in 1..Len(transactions) : transactions[i] = txn

\* C15: within a trade the append of the transaction precedes the write of
\* the position: when a request writes its position its transaction is in
\* the log; and when the append fails the request ends there, with the
\* server's error, and writes no position then or later.
C15_AppendPrecedesPositionWrite ==
    [][\A r \in Reqs :
          /\ WriteStep(r) => Logged(TxnOf(r))
          /\ ( /\ req[r].pc = "create_transaction" /\ req'[r] # req[r]
               /\ transactions' = transactions )
                 => /\ req'[r].pc = "respond"
                    /\ req'[r].response = "InternalServerError"
                    /\ portfolio' = portfolio
          /\ ( /\ req[r].pc = "respond" /\ req'[r] # req[r] )
                 => /\ req'[r] = IdleReq
                    /\ portfolio' = portfolio ]_vars

\* One trade has written its position with its transaction logged, beside
\* a request that a failed storage call has ended.
C15_Witness ==
    \E r1, r2 \in Reqs :
        /\ Wrote(r1) /\ Logged(TxnOf(r1))
        /\ Key(r1) \in DOMAIN portfolio
        /\ req[r2].pc = "respond" /\ req[r2].response = "InternalServerError"

\* C16: a failure of the position write after the transaction was appended
\* is handled: the request tries the write again, or ends with the outcome
\* PartialTradeFailure.  (The code has neither: the exception of the write
\* ends the request with the server's error.)
C16_PositionWriteFailureHandled ==
    [][\A r \in Reqs :
          ( /\ req[r].pc = "update_write" /\ req'[r] # req[r]
            /\ Logged(TxnOf(r))
            /\ ~WriteStep(r) )
              => \/ req'[r].pc = "update_write"
                 \/ /\ req'[r].pc = "respond"
                    /\ req'[r].response = "PartialTradeFailure" ]_vars

\* C17: the publish of the notification, failed or not, does not touch the
\* trade: the step leaves the log and the positions as the trade wrote
\* them, the trade's transaction stays logged, and the request ends with
\* Success either way.
C17_NotificationFailureHarmless ==
    [][\A r \in Reqs :
          ( req[r].pc = "send_notification" /\ req'[r] # req[r] )
              => /\ req'[r].pc = "respond"
                 /\ req'[r].published \in {"sent", "failed"}
                 /\ req'[r].response = "Success"
                 /\ transactions' = transactions
                 /\ portfolio' = portfolio
                 /\ Logged(TxnOf(r)) ]_vars

\* A trade whose publish failed is returning Success.
C17_Witness ==
    \E r \in Reqs :
        /\ req[r].pc = "respond" /\ req[r].published = "failed"
        /\ req[r].response = "Success"
        /\ succeeded > 0

\* Requests that have appended their transaction and have not returned.
Appended ==
    {r \in Reqs : req[r].pc \in {"get_portfolio_item", "update_get",
                                 "update_write", "send_notification"}}

\* The step is request r's and is the append of the record of its trade:
\* its user, stock, action, quantity, the execution price, completed.
AppendsItsTransaction(r) ==
    /\ req[r].pc = "create_transaction"
    /\ transactions' =
           Append(transactions,
                  [ user_id |-> req[r].user_id, stock_id |-> req[r].stock_id,
                    action |-> req[r].route, quantity |-> req[r].quantity,
                    price |-> req[r].price, status |-> "completed" ])

\* What C18 says of single requests: a request writes the log in one step
\* only, the append of its record; a request that returns Success has
\* appended and appends nothing more; a request that is turned away has
\* not appended.
OneTransactionPerTrade ==
    \A r \in Reqs :
        /\ (req'[r] # req[r] /\ transactions' # transactions)
               => AppendsItsTransaction(r)
        /\ (req[r].pc # "respond" /\ req'[r].pc = "respond")
               => /\ transactions' = transactions
                  /\ IF req'[r].response = "Success"
                     THEN r \in Appended /\ succeeded' = succeeded + 1
                     ELSE succeeded' = succeeded
                  /\ req'[r].response \notin {"Success", "InternalServerError"}
                         => r \notin Appended

\* C18, as claimed: with that, once no trade is under way the transactions
\* the handlers logged are as many as the trades that succeeded.
C18_LoggedEqualsSuccessful ==
    [][ /\ OneTransactionPerTrade
        /\ (Appended = {})' => (NumTrades = succeeded)' ]_vars

\* C18, amended: the transactions the handlers logged are as many as the
\* trades that succeeded, those under way past their append, and those a
\* storage failure ended after their append: never fewer than the first
\* two together.
C18_LoggedAtLeastSuccessful ==
    [][ /\ OneTransactionPerTrade
        /\ (NumTrades >= succeeded + Cardinality(Appended))' ]_vars

\* Trades have succeeded, none is under way, and the log holds the
\* transaction of one more trade, which a storage failure ended.
C18_Witness ==
    /\ \A r \in Reqs : req[r].pc \in {"idle", "respond"}
    /\ succeeded > 0
    /\ NumTrades = succeeded + 1

\* C19: the value a portfolio view shows is the sum, over the stored
\* positions of the viewing user, of the quantity times the current price of
\* the stock, and is 0 when the user has no position.
C19_ValueIsPositionSum ==
    \A r \in Reqs :
        (req[r].pc = "respond" /\ req[r].route = "service05") =>
            LET held == SelectSeq(QueryOrder,
                            LAMBDA id : <<req[r].user_id, id>> \in DOMAIN portfolio)
                sum[i \in 0..Len(held)] ==
                    IF i = 0 THEN 0
                    ELSE sum[i - 1]
                         + portfolio[<<req[r].user_id, held[i]>>].quantity
                           * stocks[held[i]].price
            IN  req[r].total_value = sum[Len(held)]

C21_ValidationOrder ==
    [][\A r \in Reqs :
          ( /\ req[r].pc = "sell_get_item" /\ req'[r] # req[r]
            /\ req[r].method = "POST" )
              => LET entry == get_portfolio_item(Key(r))
                     first_failing ==
                         IF req[r].quantity <= 0 THEN "InvalidQuantity"
                         ELSE IF ~entry.present THEN "NoHolding"
                         ELSE IF req[r].quantity > entry.quantity
                         THEN "InsufficientShares"
                         ELSE ""
                 IN  IF first_failing = ""
                     THEN req'[r].pc = "create_transaction"
                     ELSE /\ req'[r].pc = "respond"
                          /\ req'[r].response = first_failing]_vars

\* C22: a step of a buy or a sell on key (u, s) leaves the position of every
\* other key as it was and appends no transaction of another key; and when
\* the trades under way at once are on different keys, every key that no
\* trade is writing holds the position its own logged trades give when run
\* alone, one after the other.
C22_TradesOnOtherKeysUntouched ==
    /\ [][\A r \in Reqs :
            LET own == IF req[r].pc = "idle" THEN req'[r] ELSE req[r]
                k == <<own.user_id, own.stock_id>>
            IN  (req'[r] # req[r] /\ own.route \in {"buy", "sell"})
                  => /\ \A o \in (DOMAIN portfolio \cup DOMAIN portfolio') \ {k} :
                            /\ o \in DOMAIN portfolio /\ o \in DOMAIN portfolio'
                            /\ portfolio'[o] = portfolio[o]
                     /\ \/ transactions' = transactions
                        \/ /\ Len(transactions') = Len(transactions) + 1
                           /\ SubSeq(transactions', 1, Len(transactions))
                                  = transactions
                           /\ transactions'[Len(transactions')].user_id = k[1]
                           /\ transactions'[Len(transactions')].stock_id = k[2]]_vars
    /\ [](\A k \in LoggedKeys \cup DOMAIN portfolio :
            (\A r \in Reqs : ~(BetweenWrites(r)
                                 /\ <<req[r].user_id, req[r].stock_id>> = k))
              => LET alone == Replay(<<>>, k, KeyTxns(k))
                 IN  /\ k \in DOMAIN portfolio <=> k \in DOMAIN alone
                     /\ k \in DOMAIN portfolio => portfolio[k] = alone[k])

\* Two trades on different keys are under way at once: one has logged its
\* transaction and not yet written, the other has written in between, and
\* both keys hold the positions of earlier trades.
C22_Witness ==
    \E r1, r2 \in Reqs :
        /\ req[r1].pc = "update_write" /\ Wrote(r2)
        /\ req[r1].stock_id # req[r2].stock_id
        /\ req[r1].user_id = req[r2].user_id
        /\ Len(KeyTxns(<<req[r1].user_id, req[r1].stock_id>>)) >= 2
        /\ <<req[r1].user_id, req[r1].stock_id>> \in DOMAIN portfolio
        /\ <<req[r2].user_id, req[r2].stock_id>> \in DOMAIN portfolio

\* The keys whose first logged transaction is a sample trade of a seeding
\* run.
SeededKeys ==
    {k \in LoggedKeys :
        \E run \in 1..seedRuns, i \in 1..3 :
            /\ SamplePositions(run)[i].user_id = k[1]
            /\ k[2] \in DOMAIN stocks
            /\ stocks[k[2]].symbol = SamplePositions(run)[i].symbol}

\* C23: buys alone are order-independent: when the trades logged for a key
\* that started empty are sequential buys, the stored position (quantity and
\* average cost) is the one the same buys give in every other order.  (The
\* code stores the quantity of the last buy, which the order decides.)
C23_BuysOrderIndependent ==
    \A k \in LoggedKeys \ SeededKeys :
        LET txns == KeyTxns(k)
        IN  ( /\ \A i \in 1..Len(txns) : txns[i].action = "buy"
              /\ \A r \in Reqs : ~(BetweenWrites(r) /\ Key(r) = k) )
                => \A f \in Permutations(1..Len(txns)) :
                       LET permuted == [i \in 1..Len(txns) |-> txns[f[i]]]
                           final == Replay(<<>>, k, permuted)
                       IN  /\ k \in DOMAIN portfolio /\ k \in DOMAIN final
                           /\ portfolio[k].quantity = final[k].quantity
                           /\ portfolio[k].average_price = final[k].average_price

\* The outcomes a trade may end with as a result of the handler: success,
\* the page of a GET, and the error kinds.
StructuredOutcomes ==
    {"Success", "Rendered", "InvalidQuantity", "UnknownStock", "NoHolding",
     "InsufficientShares", "StorageUnavailable"}

\* C24: a buy or a sell that has started ends, by a step of its own, with
\* success or with one of the error kinds as a result the handler returns:
\* a storage call that fails ends it with StorageUnavailable, never with the
\* handler's crash.  (No handler catches the exception of a storage call.)
C24_ErrorsAreStructured ==
    [][\A r \in Reqs :
          ( /\ req[r].route \in {"buy", "sell"}
            /\ req[r].pc # "respond" /\ req'[r].pc = "respond" )
              => req'[r].response \in StructuredOutcomes]_vars

\* C25: a trade writes the position table at most once, and only at its own
\* (user, stock) key: the one step of a request that writes is the write of
\* its update_portfolio, which leaves every other key as it was; the steps
\* of the request before it and after it, up to its return, write nothing.
C25_OnePositionWritePerTrade ==
    [][\A r \in Reqs :
          (req'[r] # req[r] /\ req[r].route \in {"buy", "sell"})
            => /\ req[r].pc = "update_write"
                    => /\ req'[r].pc \in {"send_notification", "respond"}
                       /\ \A o \in (DOMAIN portfolio \cup DOMAIN portfolio')
                                       \ {<<req[r].user_id, req[r].stock_id>>} :
                              /\ o \in DOMAIN portfolio /\ o \in DOMAIN portfolio'
                              /\ portfolio'[o] = portfolio[o]
               /\ req[r].pc # "update_write" => portfolio' = portfolio
               /\ req[r].pc = "send_notification" => req'[r].pc = "respond"
               /\ req[r].pc = "respond" => req'[r].pc = "idle"]_vars

\* A buy has written its position, by a put_item at a key that held
\* nothing, beside the positions of other keys.
C25_Witness ==
    \E r \in Reqs :
        /\ Wrote(r) /\ req[r].route = "buy" /\ ~req[r].existing
        /\ <<req[r].user_id, req[r].stock_id>> \in DOMAIN portfolio
        /\ portfolio[<<req[r].user_id, req[r].stock_id>>].quantity
               = req[r].new_quantity
        /\ Cardinality(DOMAIN portfolio) > 3

\* C26: every stored position has average cost > 0 (the prices of the stocks
\* being positive), and the average price 0 that a sale of all that is held
\* hands to update_portfolio is never stored: that write deletes the
\* position or writes nothing.
C26_StoredAverageCostPositive ==
    /\ [](\A k \in DOMAIN portfolio : portfolio[k].average_price > 0)
    /\ [][\A r \in Reqs :
            (WriteStep(r) /\ req[r].average_price = 0)
              => \/ portfolio' = portfolio
                 \/ portfolio' = Delete(portfolio,
                                        <<req[r].user_id, req[r].stock_id>>)]_vars

\* A sale of all that was held has handed average price 0 to
\* update_portfolio and its write has deleted the position, while other
\* positions are stored.
C26_Witness ==
    \E r \in Reqs :
        /\ Wrote(r) /\ req[r].route = "sell"
        /\ req[r].new_quantity = 0 /\ req[r].average_price = 0
        /\ req[r].existing
        /\ <<req[r].user_id, req[r].stock_id>> \notin DOMAIN portfolio
        /\ portfolio # <<>>
        /\ \A id \in DOMAIN stocks : stocks[id].price > 0

\* C27: with one request at a time, between requests the stored quantity of
\* every (user, stock) key that started empty, 0 when no position is stored,
\* is the sum of the quantities of the key's logged buys minus that of its
\* logged sells.
\* (A buy on a held position stores the bought quantity alone.)
C27_PositionMatchesLog ==
    \A k \in (LoggedKeys \cup DOMAIN portfolio) \ SeededKeys :
        (\A r \in Reqs : ~(BetweenWrites(r) /\ Key(r) = k))
            => LET txns == KeyTxns(k)
                   buys == SelectSeq(txns, LAMBDA t : t.action = "buy")
                   sells == SelectSeq(txns, LAMBDA t : t.action = "sell")
                   stored == IF k \in DOMAIN portfolio
                             THEN portfolio[k].quantity ELSE 0
               IN  stored = SumQuantity(buys) - SumQuantity(sells)

\* C28: no overselling: in every reachable state, whatever sells and buys
\* of one (user, stock) key have interleaved, the quantities of the key's
\* logged sells add up to no more than those of its logged buys.  (Two
\* concurrent sells both pass the check against the position each has read.)
C28_NoOverselling ==
    \A k \in LoggedKeys :
        LET txns == KeyTxns(k)
        IN  SumQuantity(SelectSeq(txns, LAMBDA t : t.action = "sell"))
                <= SumQuantity(SelectSeq(txns, LAMBDA t : t.action = "buy"))

\* C29: delete_trader_by_id with the id of a stored trader returns True,
\* and then no user with that id and no position of that user is stored
\* while the log is as it was; with an id of no stored user it returns
\* False and changes nothing.  (The code deletes under the wrong key and
\* then raises UnboundLocalError.)
C29_DeleteTraderRemovesUserAndPositions ==
    [][\A r \in Reqs :
          (req[r].pc = "idle" /\ req'[r].route = "delete_trader")
            => LET trader_id == req'[r].user_id
               IN  IF \E e \in DOMAIN users : users[e].id = trader_id
                   THEN /\ req'[r].response = "True"
                        /\ ~\E e \in DOMAIN users' : users'[e].id = trader_id
                        /\ ~\E k \in DOMAIN portfolio' : k[1] = trader_id
                        /\ transactions' = transactions
                   ELSE /\ req'[r].response = "False"
                        /\ users' = users
                        /\ portfolio' = portfolio
                        /\ transactions' = transactions]_vars

\* C30: seeding is idempotent: a run of add_sample_data on a store that a
\* run has seeded adds no user, stock, transaction or position; and every
\* position and every transaction that seeding has written (they share
\* their keys) names the id of a stored user.  (Every run draws new user ids and writes its sample
\* trades under them, whether or not it stored the users.)
C30_SeedingIdempotent ==
    /\ [][(seedRuns >= 1 /\ seedRuns' = seedRuns + 1)
            => /\ users' = users
               /\ stocks' = stocks
               /\ transactions' = transactions
               /\ portfolio' = portfolio]_vars
    /\ [](\A k \in SeededKeys : get_user_by_id(k[1]))

\* C31: whatever buys and sells of a key have run or interleaved, the
\* average cost of its stored position lies between the lowest and the
\* highest price of the buys logged for the key.
C31_AverageCostWithinBuyPrices ==
    \A k \in DOMAIN portfolio :
        LET buys == SelectSeq(KeyTxns(k), LAMBDA t : t.action = "buy")
        IN  /\ buys # <<>>
            /\ \E i \in 1..Len(buys) : buys[i].price <= portfolio[k].average_price
            /\ \E i \in 1..Len(buys) : buys[i].price >= portfolio[k].average_price

\* A position bought at two prices is stored with an average cost strictly
\* between them, and a sale of the key is logged too.
C31_Witness ==
    \E k \in DOMAIN portfolio :
        LET txns == KeyTxns(k)
        IN  /\ \E i \in 1..Len(txns) :
                  /\ txns[i].action = "buy"
                  /\ txns[i].price < portfolio[k].average_price
            /\ \E i \in 1..Len(txns) :
                  /\ txns[i].action = "buy"
                  /\ txns[i].price > portfolio[k].average_price
            /\ \E i \in 1..Len(txns) : txns[i].action = "sell"

\* The session names a logged-in trader whose email a stored user has.
TraderSession(session) ==
    /\ session.email # ""
    /\ session.role = "trader"
    /\ get_user_by_email(session.email).found

\* C32: a buy or a sell whose session has no email, or a role other than
\* trader, or an email of no stored user, writes nothing: the request ends
\* with AccessDenied or AccountMissing in its first step, no step of it
\* appends a transaction or creates, changes or deletes a position, and so
\* every step of a request that writes is of a request that started with
\* the session of a stored trader.
C32_UnauthorizedRequestWritesNothing ==
    [][\A r \in Reqs :
          /\ ( /\ req'[r] # req[r]
               /\ transactions' # transactions \/ portfolio' # portfolio )
                 => /\ req[r].route \in {"buy", "sell"}
                    /\ req[r].session.email # ""
                    /\ req[r].session.role = "trader"
                    /\ \E e \in DOMAIN users :
                          /\ e = req[r].session.email
                          /\ users[e].id = req[r].user_id
                          /\ users[e].role = "trader"
          /\ ( /\ req[r].pc = "idle" /\ req'[r].route \in {"buy", "sell"}
               /\ req'[r].response \in {"AccessDenied", "AccountMissing"} )
                 => /\ req'[r].pc = "respond"
                    /\ transactions' = transactions /\ portfolio' = portfolio
          /\ ( /\ req[r].pc = "respond" /\ req'[r] # req[r] )
                 => /\ req'[r] = IdleReq
                    /\ transactions' = transactions /\ portfolio' = portfolio
          /\ ( /\ req[r].pc = "idle" /\ req'[r].route \in {"buy", "sell"}
               /\ req'[r].pc # "respond" )
                 => TraderSession(req'[r].session)]_vars

\* A trade request has been turned away for its session while the store
\* holds users, stocks and positions.
C32_Witness ==
    \E r \in Reqs :
        /\ req[r].pc = "respond" /\ req[r].route \in {"buy", "sell"}
        /\ req[r].response = "AccessDenied"
        /\ users # <<>> /\ stocks # <<>> /\ portfolio # <<>>

\* C33: whatever the store holds, the value service01 shows the admin for a
\* trader is the value service05 shows that trader, also when a position of
\* the trader names a stock id the stock table does not hold.  (service01
\* reads item['stock'] without the test service05 makes, and ends with
\* KeyError.)
C33_AdminValueEqualsTraderValue ==
    \A r1, r2 \in Reqs :
        ( /\ req[r1].pc = "respond" /\ req[r1].route = "service01"
          /\ req[r2].pc = "respond" /\ req[r2].route = "service05" )
            => /\ req[r1].response = "Rendered"
               /\ req[r2].user_id \in DOMAIN req[r1].traders
               /\ req[r1].traders[req[r2].user_id] = req[r2].total_value

==============================================================================
